---- MODULE Spec2Model ----
(***************************************************************************)
(* Overtime accounting on hr.employee (module hr_timesheet_overtime):      *)
(* working-hours lookup, total overtime aggregation, the overtime access   *)
(* flag and the write guard on initial_overtime / overtime_start_date.     *)
(*                                                                         *)
(* Dates are day ordinals (date.toordinal) of a calendar whose years have  *)
(* DaysPerYear days; hours are integers; a naive datetime is the number of *)
(* hours since midnight of day 0.                                          *)
(***************************************************************************)
EXTENDS Integers, Sequences, FiniteSets, TLC

\* ------------------------------------------------------------------ bounds
MaxEmployees == 2      \* employee records a run creates (write / overtime)
MaxHierarchy == 3      \* employee records of the management hierarchy
MaxSheets    == 2      \* timesheet sheets in the database
MaxHours     == 1      \* initial_overtime values 0..MaxHours
MaxDay       == 1      \* dates 0..MaxDay of payloads and sheets
MaxToday     == 3      \* the clock stops at day MaxToday
DaysPerYear  == 2      \* days of a calendar year

Hours == 0..MaxHours
Days  == 0..MaxDay
Users == {1, 2, 3}
TimeZones == {"UTC", "Europe/Brussels"}
NoRecord == 0          \* the empty recordset of a many2one

VARIABLES
    initial_overtime,     \* hr.employee column: id -> hours
    overtime_start_date,  \* hr.employee column: id -> date
    tz,                   \* hr.employee column: id -> timezone name
    user_id,              \* hr.employee column: id -> res.users id or NoRecord
    parent_id,            \* hr.employee column: id -> manager's id or NoRecord
    sheets,               \* hr_timesheet.sheet table: id -> record
    env,                  \* environment of the current request: [user]
    context,              \* context of the environment: [active_test]
    cache,                \* total_overtime values cached in the environment
    today,                \* date.today() of the process clock
    default_start,        \* the default= value of overtime_start_date
    calendar,             \* working hours per day of the contract calendar
    last                  \* outcome of the last operation

vars == <<initial_overtime, overtime_start_date, tz, user_id, parent_id,
          sheets, env, context, cache, today, default_start, calendar, last>>

employee_ids == DOMAIN initial_overtime

\* ---------------------------------------------------------- python values
\* A value of a write payload or of a field read, tagged with its type.
Float(h)  == [kind |-> "float", v |-> h]
Date(d)   == [kind |-> "date", v |-> d]
PyFalse   == [kind |-> "bool", v |-> 0]

\* date.replace(month=1, day=1)
replace_jan_first(d) == d - (d % DaysPerYear)

\* The ISO text of a date, as <<year, day of the year>>.
isoformat(d) == <<d \div DaysPerYear, (d % DaysPerYear) + 1>>
Str(d) == [kind |-> "str", v |-> isoformat(d)]

\* fields.Date.to_date: a date stays, a string is parsed.
to_date(x) ==
    IF x.kind = "str" THEN x.v[1] * DaysPerYear + (x.v[2] - 1) ELSE x.v

\* Mutant of PyNe: == written for !=.
PyNe_as_eq(a, b) == a.kind = b.kind /\ a.v = b.v

\* Python's != : values of different types differ.
PyNe(a, b) == a.kind # b.kind \/ a.v # b.v

\* ------------------------------------------------------------- identities
OVERTIME_WRITE_ACCESS_GROUPS == <<"hr.group_hr_user", "hr.group_hr_manager">>

\* Groups of the users of the database: user 1 is a plain employee, user 2
\* an HR officer, every other user an HR manager (which implies officer).
UserGroups(u) ==
    CASE u = 1 -> {"base.group_user"}
      [] u = 2 -> {"base.group_user", "hr.group_hr_user"}
      [] OTHER -> {"base.group_user", "hr.group_hr_user", "hr.group_hr_manager"}

has_group(u, g) == g \in UserGroups(u)

has_overtime_write_access(u) ==
    \E i \in 1..Len(OVERTIME_WRITE_ACCESS_GROUPS) :
        has_group(u, OVERTIME_WRITE_ACCESS_GROUPS[i])

\* ---------------------------------------------------------------- payload
\* A payload maps each guarded field to <<>> (field not in vals) or <<value>>;
\* a date comes as a date object or, from a remote call, as its text.
Fields == {"initial_overtime", "overtime_start_date"}
Has(vals, f) == Len(vals[f]) > 0

Payloads ==
    [initial_overtime : {<<>>} \cup {<<Float(h)>> : h \in Hours},
     overtime_start_date :
         {<<>>} \cup {<<Date(d)>> : d \in Days} \cup {<<Str(d)>> : d \in Days}]

\* self[field] on a recordset: the null value on the empty recordset, the
\* stored value on a singleton; on more records ensure_one() raises.
null_value(f) == IF f = "initial_overtime" THEN Float(0) ELSE PyFalse

getitem(ids, f) ==
    IF ids = {} THEN null_value(f)
    ELSE LET e == CHOOSE x \in ids : TRUE IN
         IF f = "initial_overtime" THEN Float(initial_overtime[e])
         ELSE Date(overtime_start_date[e])

\* ------------------------------------------------------------ write guard
RESTRICTED_FIELDS == <<"initial_overtime", "overtime_start_date">>

\* The loop of write() from the i-th restricted field on: the error it
\* raises, or "ok" when it reaches the call of super().write.
RECURSIVE write_guard(_, _, _, _)
write_guard(i, ids, vals, u) ==
    IF i > Len(RESTRICTED_FIELDS) THEN "ok"
    ELSE LET f == RESTRICTED_FIELDS[i] IN
         IF ~Has(vals, f) THEN write_guard(i + 1, ids, vals, u)
         ELSE IF Cardinality(ids) > 1 THEN "ValueError"
         ELSE IF PyNe(getitem(ids, f), vals[f][1])
                 /\ ~has_overtime_write_access(u) THEN "AccessError"
         ELSE write_guard(i + 1, ids, vals, u)

\* super().write(vals): every field of vals is stored on every record, a
\* date given as text after its conversion.
super_write(ids, vals) ==
    /\ initial_overtime' =
         [e \in employee_ids |->
            IF e \in ids /\ Has(vals, "initial_overtime")
            THEN vals.initial_overtime[1].v ELSE initial_overtime[e]]
    /\ overtime_start_date' =
         [e \in employee_ids |->
            IF e \in ids /\ Has(vals, "overtime_start_date")
            THEN to_date(vals.overtime_start_date[1])
            ELSE overtime_start_date[e]]

\* @api.depends of _compute_total_overtime, as paths of field names.
total_overtime_depends == {<<"timesheet_sheet_ids", "active">>}

\* modified(fnames) on employees ids: the employees whose cached
\* total_overtime the declared dependencies invalidate.
modified_employee(ids, fnames) ==
    IF \E f \in fnames : <<f>> \in total_overtime_depends THEN ids ELSE {}

\* modified(fnames) on sheet s: the same, through timesheet_sheet_ids.
modified_sheet(s, fnames) ==
    IF \E f \in fnames : <<"timesheet_sheet_ids", f>> \in total_overtime_depends
    THEN {sheets[s].employee_id} ELSE {}

Drop(c, ids) == [e \in (DOMAIN c) \ ids |-> c[e]]

\* HrEmployee.write(vals) on the recordset ids, by the user of the request.
write(ids, vals) ==
    LET outcome == write_guard(1, ids, vals, env.user) IN
    /\ IF outcome = "ok"
       THEN /\ super_write(ids, vals)
            /\ UNCHANGED tz
            /\ cache' = Drop(cache, modified_employee(
                                    ids, {f \in Fields : Has(vals, f)}))
       ELSE UNCHANGED <<initial_overtime, overtime_start_date, tz, cache>>
    /\ last' = [op |-> "write", outcome |-> outcome, rec |-> 0, value |-> 0]
    /\ UNCHANGED <<user_id, parent_id, sheets, env, context, today,
                   default_start, calendar>>

Write == \E ids \in SUBSET employee_ids : \E vals \in Payloads : write(ids, vals)

\* ------------------------------------------------------------------ create
Extend(col, v) == [e \in 1..(Cardinality(DOMAIN col) + 1) |->
                     IF e \in DOMAIN col THEN col[e] ELSE v]

\* create(vals): a field that vals leaves out takes its default=; the
\* default of overtime_start_date is the value the class body computed.
create(vals) ==
    /\ Cardinality(employee_ids) < MaxEmployees
    /\ initial_overtime' =
         Extend(initial_overtime,
                IF Has(vals, "initial_overtime")
                THEN vals.initial_overtime[1].v ELSE 0)
    /\ overtime_start_date' =
         Extend(overtime_start_date,
                IF Has(vals, "overtime_start_date")
                THEN to_date(vals.overtime_start_date[1]) ELSE default_start)
    /\ tz' = Extend(tz, "UTC")
    /\ user_id' = Extend(user_id, NoRecord)
    /\ parent_id' = Extend(parent_id, NoRecord)
    /\ last' = [op |-> IF Has(vals, "overtime_start_date")
                       THEN "create" ELSE "create_default",
                outcome |-> "ok",
                rec |-> Cardinality(employee_ids) + 1, value |-> today]
    /\ UNCHANGED <<sheets, env, context, cache, today, default_start, calendar>>

Create == \E vals \in Payloads : create(vals)

\* ----------------------------------------------------------------- request
\* A request opens an environment for its user: empty cache, default context.
EmptyCache == [e \in {} |-> 0]

NewRequest ==
    \E u \in Users :
        /\ env' = [user |-> u]
        /\ context' = [active_test |-> TRUE]
        /\ cache' = EmptyCache
        /\ last' = [op |-> "request", outcome |-> "ok", rec |-> 0, value |-> 0]
        /\ UNCHANGED <<initial_overtime, overtime_start_date, tz, user_id,
                       parent_id, sheets, today, default_start, calendar>>

\* The process clock moves on to the next day.
Tick ==
    /\ today < MaxToday
    /\ today' = today + 1
    /\ last' = [op |-> "tick", outcome |-> "ok", rec |-> 0, value |-> 0]
    /\ UNCHANGED <<initial_overtime, overtime_start_date, tz, user_id,
                   parent_id, sheets, env, context, cache, default_start,
                   calendar>>

\* ---------------------------------------------------------- total overtime
\* timesheet_overtime of sheet s, computed by the sheet model: a different
\* power of two for each sheet, so that a sum names the sheets it counts.
RECURSIVE timesheet_overtime(_)
timesheet_overtime(s) == IF s = 1 THEN 1 ELSE 2 * timesheet_overtime(s - 1)

\* Mutant of search_sheets: date_end > for date_end >=.
search_sheets_strict(e) ==
    {s \in DOMAIN sheets :
        /\ sheets[s].employee_id = e
        /\ sheets[s].date_end > overtime_start_date[e]
        /\ (context.active_test => sheets[s].active)}

\* search() on hr_timesheet.sheet with the domain of _compute_total_overtime;
\* the model has an active field, so the search leaves out inactive records
\* unless the context sets active_test to False.
search_sheets(e) ==
    {s \in DOMAIN sheets :
        /\ sheets[s].employee_id = e
        /\ sheets[s].date_end >= overtime_start_date[e]
        /\ (context.active_test => sheets[s].active)}

RECURSIVE sum_overtime(_)
sum_overtime(S) ==
    IF S = {} THEN 0
    ELSE LET s == CHOOSE x \in S : TRUE IN
         timesheet_overtime(s) + sum_overtime(S \ {s})

\* The value _compute_total_overtime assigns to employee.total_overtime.
total_overtime(e) == initial_overtime[e] + sum_overtime(search_sheets(e))

\* _compute_total_overtime on the recordset ids: the cache after the loop.
compute_total_overtime(ids) ==
    [e \in (DOMAIN cache) \cup ids |->
        IF e \in ids THEN total_overtime(e) ELSE cache[e]]

\* The compute method is called on a recordset.
ComputeTotalOvertime ==
    \E ids \in SUBSET employee_ids :
        /\ cache' = compute_total_overtime(ids)
        /\ last' = [op |-> "compute_total_overtime", outcome |-> "ok",
                    rec |-> 0, value |-> 0]
        /\ UNCHANGED <<initial_overtime, overtime_start_date, tz, user_id,
                       parent_id, sheets, env, context, today, default_start,
                       calendar>>

\* Reading employee.total_overtime: the cached value if the environment has
\* one, else the value the compute method assigns, which is then cached.
ReadTotalOvertime ==
    \E e \in employee_ids :
        /\ cache' = IF e \in DOMAIN cache THEN cache
                    ELSE compute_total_overtime({e})
        /\ last' = [op |-> "read_total_overtime", outcome |-> "ok",
                    rec |-> e, value |-> cache'[e]]
        /\ UNCHANGED <<initial_overtime, overtime_start_date, tz, user_id,
                       parent_id, sheets, env, context, today, default_start,
                       calendar>>

\* A sheet is archived or restored; the dependencies of total_overtime
\* invalidate the cached value of its employee.
ToggleActive ==
    \E s \in DOMAIN sheets :
        /\ sheets' = [sheets EXCEPT ![s].active = ~@]
        /\ cache' = Drop(cache, modified_sheet(s, {"active"}))
        /\ last' = [op |-> "toggle_active", outcome |-> "ok",
                    rec |-> s, value |-> 0]
        /\ UNCHANGED <<initial_overtime, overtime_start_date, tz, user_id,
                       parent_id, env, context, today, default_start, calendar>>

\* with_context(active_test=...): another environment, with its own cache.
WithContext ==
    \E at \in BOOLEAN :
        /\ at # context.active_test
        /\ context' = [active_test |-> at]
        /\ cache' = EmptyCache
        /\ last' = [op |-> "with_context", outcome |-> "ok",
                    rec |-> 0, value |-> 0]
        /\ UNCHANGED <<initial_overtime, overtime_start_date, tz, user_id,
                       parent_id, sheets, env, today, default_start, calendar>>

\* ------------------------------------------------------------ working hours
HoursPerDay == 24
MaxWork     == 1       \* working hours 0..MaxWork of a day of the calendar

\* The zone "Europe/Brussels" of the model: standard time is UTC+1; summer
\* time, UTC+2, starts on day DstStartDay when the local clock jumps from
\* 02:00 to 03:00 and ends on day DstEndDay when it falls back to 02:00.
DstStartDay == 1
DstEndDay   == 2

\* tz.utcoffset of a naive local datetime (is_dst=False).
utcoffset(z, naive) ==
    IF z = "UTC" THEN 0
    ELSE IF /\ naive >= DstStartDay * HoursPerDay + 3
            /\ naive < DstEndDay * HoursPerDay + 2 THEN 2
    ELSE 1

\* datetime(d.year, d.month, d.day): midnight of the date, naive.
datetime(d) == d * HoursPerDay

\* tz.localize(naive): the naive datetime with the offset in force then.
localize(z, naive) == [naive |-> naive, utcoffset |-> utcoffset(z, naive)]

\* aware datetime + timedelta(days=n): wall-clock arithmetic, same tzinfo.
plus_days(dt, n) == [dt EXCEPT !.naive = @ + n * HoursPerDay]

\* The instant of an aware datetime, in hours UTC.
instant(dt) == dt.naive - dt.utcoffset

Min(a, b) == IF a < b THEN a ELSE b
Max(a, b) == IF a > b THEN a ELSE b

\* list_normal_work_time_per_day(start_dt, end_dt) of the calendar
\* collaborator: day d is worked from its midnight UTC for calendar[d]
\* hours; the (date, hours) pairs of the days worked within [start, end).
RECURSIVE work_time_from(_, _, _)
work_time_from(d, start_dt, end_dt) ==
    IF d \notin DOMAIN calendar THEN <<>>
    ELSE LET from  == Max(instant(start_dt), d * HoursPerDay)
             to    == Min(instant(end_dt), d * HoursPerDay + calendar[d])
             rest  == work_time_from(d + 1, start_dt, end_dt)
         IN IF to > from THEN <<(<<d, to - from>>)>> \o rest ELSE rest

list_normal_work_time_per_day(start_dt, end_dt) ==
    work_time_from(0, start_dt, end_dt)

RECURSIVE sum_work_time(_)
sum_work_time(pairs) ==
    IF pairs = <<>> THEN 0 ELSE Head(pairs)[2] + sum_work_time(Tail(pairs))

\* An optional date argument: <<>> is None, <<d>> the date d.
None == <<>>
\* Mutant of end_date_or_start: an omitted end date becomes the next day.
end_date_next_day(start_date, end_date) ==
    IF end_date = <<>> THEN start_date + 1 ELSE end_date[1]

end_date_or_start(start_date, end_date) ==
    IF end_date = None THEN start_date ELSE end_date[1]

\* get_working_hours(start_date, end_date) on employee e: the interval
\* handed to the collaborator and the hours returned.
get_working_hours(e, start_date, end_date) ==
    LET end      == end_date_or_start(start_date, end_date)
        start_dt == localize(tz[e], datetime(start_date))
        end_dt   == plus_days(localize(tz[e], datetime(end)), 1)
    IN [start_dt |-> start_dt, end_dt |-> end_dt,
        hours |-> sum_work_time(list_normal_work_time_per_day(start_dt, end_dt))]

GetWorkingHours ==
    \E e \in employee_ids : \E start_date \in Days :
    \E end_date \in {None} \cup {<<d>> : d \in Days} :
        /\ last' = [op |-> "get_working_hours", outcome |-> "ok", rec |-> e,
                    value |-> [start_date |-> start_date, end_date |-> end_date,
                               result |-> get_working_hours(e, start_date, end_date)]]
        /\ UNCHANGED <<initial_overtime, overtime_start_date, tz, user_id,
                       parent_id, sheets, env, context, cache, today,
                       default_start, calendar>>

\* _compute_current_day_working_hours on the recordset ids.
compute_current_day_working_hours(ids) ==
    [e \in ids |-> get_working_hours(e, today, None).hours]

ComputeCurrentDayWorkingHours ==
    \E ids \in SUBSET employee_ids :
        /\ last' = [op |-> "compute_current_day_working_hours",
                    outcome |-> "ok", rec |-> 0,
                    value |-> compute_current_day_working_hours(ids)]
        /\ UNCHANGED <<initial_overtime, overtime_start_date, tz, user_id,
                       parent_id, sheets, env, context, cache, today,
                       default_start, calendar>>

\* ------------------------------------------------------------- access flag
\* The child_of operator on hr.employee: the ids and every record reached
\* from them through parent_id, level after level.
RECURSIVE child_of_loop(_, _)
child_of_loop(ids, child_ids) ==
    IF ids = {} THEN child_ids
    ELSE LET found == {e \in employee_ids : parent_id[e] \in ids}
         IN child_of_loop(found, child_ids \cup found)

\* Mutant of child_of: the direct reports only.
child_of_direct(ids) == ids \cup {e \in employee_ids : parent_id[e] \in ids}

child_of(ids) == child_of_loop(ids, ids)

\* env.user.employee_ids
user_employee_ids(u) == {e \in employee_ids : user_id[e] = u}

\* _compute_has_overtime_access on the recordset ids: the flag of each record.
compute_has_overtime_access(ids) ==
    [rec \in ids |->
        IF has_overtime_write_access(env.user) THEN TRUE
        ELSE IF user_id[rec] = env.user THEN TRUE
        ELSE rec \in child_of(user_employee_ids(env.user))]

ComputeHasOvertimeAccess ==
    \E ids \in SUBSET employee_ids :
        /\ last' = [op |-> "compute_has_overtime_access", outcome |-> "ok",
                    rec |-> 0, value |-> compute_has_overtime_access(ids)]
        /\ UNCHANGED <<initial_overtime, overtime_start_date, tz, user_id,
                       parent_id, sheets, env, context, cache, today,
                       default_start, calendar>>

\* The managers above e, at most k levels up.
RECURSIVE managers_above(_, _, _)
managers_above(p, e, k) ==
    IF k = 0 \/ p[e] = NoRecord THEN {}
    ELSE {p[e]} \cup managers_above(p, p[e], k - 1)

\* hr.employee refuses a recursive hierarchy.
check_recursion(p) == \A e \in DOMAIN p : e \notin managers_above(p, e, MaxHierarchy)

\* ------------------------------------------------------------------- specs
EmptyColumn == [e \in {} |-> 0]

\* The module is loaded on day 0 or later; the database has no employee.
Init ==
    /\ initial_overtime = EmptyColumn
    /\ overtime_start_date = EmptyColumn
    /\ tz = EmptyColumn
    /\ user_id = EmptyColumn
    /\ parent_id = EmptyColumn
    /\ sheets = EmptyColumn
    /\ env = [user |-> 1]
    /\ context = [active_test |-> TRUE]
    /\ cache = EmptyCache
    /\ today \in 0..(DaysPerYear - 1)
    /\ default_start = replace_jan_first(today)
    /\ calendar = EmptyColumn
    /\ last = [op |-> "load", outcome |-> "ok", rec |-> 0, value |-> 0]

Next == NewRequest \/ Create \/ Write

Spec == Init /\ [][Next]_vars

NextCreate == NewRequest \/ Create \/ Write \/ Tick

SpecCreate == Init /\ [][NextCreate]_vars

\* A database of MaxEmployees employees and MaxSheets sheets.
SheetRecords == [employee_id : 1..MaxEmployees, date_end : Days, active : BOOLEAN]

InitTotal ==
    /\ initial_overtime = [e \in 1..MaxEmployees |-> e % (MaxHours + 1)]
    /\ overtime_start_date \in [1..MaxEmployees -> Days]
    /\ tz = [e \in 1..MaxEmployees |-> "UTC"]
    /\ user_id = [e \in 1..MaxEmployees |-> NoRecord]
    /\ parent_id = [e \in 1..MaxEmployees |-> NoRecord]
    /\ sheets \in [1..MaxSheets -> SheetRecords]
    /\ env = [user |-> 1]
    /\ context = [active_test |-> TRUE]
    /\ cache = EmptyCache
    /\ today = 0
    /\ default_start = replace_jan_first(today)
    /\ calendar = EmptyColumn
    /\ last = [op |-> "load", outcome |-> "ok", rec |-> 0, value |-> 0]

NextTotal == ComputeTotalOvertime \/ WithContext

SpecTotal == InitTotal /\ [][NextTotal]_vars

\* Employees with the default fields, each sheet owned by one of them.
InitCache ==
    /\ initial_overtime = [e \in 1..MaxEmployees |-> 0]
    /\ overtime_start_date = [e \in 1..MaxEmployees |-> 0]
    /\ tz = [e \in 1..MaxEmployees |-> "UTC"]
    /\ user_id = [e \in 1..MaxEmployees |-> NoRecord]
    /\ parent_id = [e \in 1..MaxEmployees |-> NoRecord]
    /\ sheets = [s \in 1..MaxSheets |->
                   [employee_id |-> ((s - 1) % MaxEmployees) + 1,
                    date_end |-> MaxDay, active |-> TRUE]]
    /\ env = [user |-> 1]
    /\ context = [active_test |-> TRUE]
    /\ cache = EmptyCache
    /\ today = 0
    /\ default_start = replace_jan_first(today)
    /\ calendar = EmptyColumn
    /\ last = [op |-> "load", outcome |-> "ok", rec |-> 0, value |-> 0]

NextCache == NewRequest \/ Write \/ ToggleActive \/ ReadTotalOvertime

SpecCache == InitCache /\ [][NextCache]_vars

\* Employees in any timezone, any calendar, any day of the clock.
InitHours ==
    /\ initial_overtime = [e \in 1..MaxEmployees |-> 0]
    /\ overtime_start_date = [e \in 1..MaxEmployees |-> 0]
    /\ tz \in [1..MaxEmployees -> TimeZones]
    /\ user_id = [e \in 1..MaxEmployees |-> NoRecord]
    /\ parent_id = [e \in 1..MaxEmployees |-> NoRecord]
    /\ sheets = EmptyColumn
    /\ env = [user |-> 1]
    /\ context = [active_test |-> TRUE]
    /\ cache = EmptyCache
    /\ today \in Days
    /\ default_start = replace_jan_first(today)
    /\ calendar \in [0..(MaxDay + 1) -> 0..MaxWork]
    /\ last = [op |-> "load", outcome |-> "ok", rec |-> 0, value |-> 0]

NextHours == GetWorkingHours \/ ComputeCurrentDayWorkingHours

SpecHours == InitHours /\ [][NextHours]_vars

\* Any management hierarchy, any link between employees and users.
InitAccess ==
    /\ initial_overtime = [e \in 1..MaxHierarchy |-> 0]
    /\ overtime_start_date = [e \in 1..MaxHierarchy |-> 0]
    /\ tz = [e \in 1..MaxHierarchy |-> "UTC"]
    /\ user_id \in [1..MaxHierarchy -> {NoRecord} \cup Users]
    /\ parent_id \in [1..MaxHierarchy -> {NoRecord} \cup 1..MaxHierarchy]
    /\ check_recursion(parent_id)
    /\ sheets = EmptyColumn
    /\ env = [user |-> 1]
    /\ context = [active_test |-> TRUE]
    /\ cache = EmptyCache
    /\ today = 0
    /\ default_start = replace_jan_first(today)
    /\ calendar = EmptyColumn
    /\ last = [op |-> "load", outcome |-> "ok", rec |-> 0, value |-> 0]

NextAccess == NewRequest \/ ComputeHasOvertimeAccess

SpecAccess == InitAccess /\ [][NextAccess]_vars

\* ------------------------------------------------------ write guard claims
\* The acting user holds one of the two elevated roles.
HoldsElevatedRole(u) ==
    UserGroups(u) \cap {"hr.group_hr_user", "hr.group_hr_manager"} # {}

\* The value a payload gives to a protected field, as the record stores it.
NewValue(vals, f) ==
    IF f = "initial_overtime" THEN vals[f][1].v ELSE to_date(vals[f][1])

Stored(e, f) ==
    IF f = "initial_overtime" THEN initial_overtime[e] ELSE overtime_start_date[e]

Protected == {"initial_overtime", "overtime_start_date"}

\* vals names a protected field with a value some targeted record does not store.
ChangesProtected(ids, vals) ==
    \E e \in ids : \E f \in Protected :
        Has(vals, f) /\ NewValue(vals, f) # Stored(e, f)

\* vals names protected fields, each with the value record e stores.
RestatesProtected(e, vals) ==
    /\ \E f \in Protected : Has(vals, f)
    /\ \A f \in Protected : Has(vals, f) => NewValue(vals, f) = Stored(e, f)

ColumnsUnchanged ==
    UNCHANGED <<initial_overtime, overtime_start_date, tz, user_id, parent_id>>

\* C2: a write by a user without elevated role whose payload gives a
\* protected field a value different from the stored one ends in an
\* authorization error, and no field of any targeted record changes.
C2_UnprivilegedChangeIsAccessError ==
    [][\A ids \in SUBSET employee_ids : \A vals \in Payloads :
          (write(ids, vals) /\ ~HoldsElevatedRole(env.user)
                            /\ ChangesProtected(ids, vals))
          => (last'.outcome = "AccessError" /\ ColumnsUnchanged)]_vars

\* C3: a step changes the stored initial_overtime or overtime_start_date of
\* an existing employee only if the acting user holds an elevated role.
C3_ProtectedChangeOnlyByElevated ==
    [][(\E e \in employee_ids :
            \/ initial_overtime'[e] # initial_overtime[e]
            \/ overtime_start_date'[e] # overtime_start_date[e])
       => HoldsElevatedRole(env.user)]_vars

\* C3 witness: a user without elevated role tried to change a protected
\* field of an employee and the write was refused.
C3_Witness ==
    /\ last.op = "write"
    /\ last.outcome = "AccessError"
    /\ ~HoldsElevatedRole(env.user)
    /\ employee_ids # {}

\* C4: a write that gives protected fields the values the record stores is
\* permitted for every user: it raises no error and the payload reaches the
\* persistence layer, which leaves the record with these values.
C4_RestatingStoredValueIsPermitted ==
    [][\A e \in employee_ids : \A vals \in Payloads :
          (write({e}, vals) /\ RestatesProtected(e, vals))
          => /\ last'.outcome = "ok"
             /\ \A f \in Protected :
                  Has(vals, f) => Stored(e, f)' = NewValue(vals, f)]_vars

\* C5: a write by a user with an elevated role that gives a protected field
\* a different value succeeds, and every targeted record then stores it.
C5_ElevatedChangeIsStored ==
    [][\A ids \in SUBSET employee_ids : \A vals \in Payloads :
          (write(ids, vals) /\ HoldsElevatedRole(env.user)
                            /\ ChangesProtected(ids, vals))
          => /\ last'.outcome = "ok"
             /\ \A e \in ids :
                  /\ Has(vals, "initial_overtime") =>
                       initial_overtime'[e] = NewValue(vals, "initial_overtime")
                  /\ Has(vals, "overtime_start_date") =>
                       overtime_start_date'[e] = NewValue(vals, "overtime_start_date")]_vars

\* C8: a record created without an explicit overtime_start_date gets
\* January 1 of the year current at the moment of the creation.
C8_DefaultIsJanFirstOfCreationYear ==
    last.op = "create_default" =>
        overtime_start_date[last.rec] = replace_jan_first(last.value)

\* -------------------------------------------------- total overtime claims
\* The overtime of the sheets among 1..n that are in S, each counted once.
RECURSIVE SumOver(_, _)
SumOver(n, S) ==
    IF n = 0 THEN 0
    ELSE (IF n \in S THEN timesheet_overtime(n) ELSE 0) + SumOver(n - 1, S)

\* C1 as stated: total_overtime(E) is initial_overtime(E) plus the overtime
\* of exactly the sheets of E whose date_end is on or after the start date.
C1_TotalCountsEverySheetSinceStart ==
    \A e \in DOMAIN cache :
        LET Counted == {s \in DOMAIN sheets :
                          /\ sheets[s].employee_id = e
                          /\ sheets[s].date_end >= overtime_start_date[e]}
        IN cache[e] = initial_overtime[e] + SumOver(MaxSheets, Counted)

\* C1 amended: total_overtime(E) is initial_overtime(E) plus the overtime of
\* exactly the sheets of E whose date_end is on or after the start date and
\* which the search sees: the active ones, and the inactive ones only when
\* the context disables active_test.
C1_TotalCountsVisibleSheetsSinceStart ==
    \A e \in DOMAIN cache :
        LET Counted == {s \in DOMAIN sheets :
                          /\ sheets[s].employee_id = e
                          /\ ~(sheets[s].date_end < overtime_start_date[e])
                          /\ (sheets[s].active \/ ~context.active_test)}
        IN cache[e] = initial_overtime[e] + SumOver(MaxSheets, Counted)

\* C1 witness: a total was computed for an employee with an initial
\* overtime, a counted sheet and a sheet that ends before the start date.
C1_Witness ==
    \E e \in DOMAIN cache :
        /\ initial_overtime[e] > 0
        /\ cache[e] > initial_overtime[e]
        /\ \E s \in DOMAIN sheets :
              sheets[s].employee_id = e
              /\ sheets[s].date_end < overtime_start_date[e]

\* C7: a read of total_overtime returns the value computed from the values
\* stored at the time of the read, also after a write that changed
\* initial_overtime or overtime_start_date or the active flag of a sheet.
C7_ReadIsNeverStale ==
    last.op = "read_total_overtime" => last.value = total_overtime(last.rec)

\* --------------------------------------------------- working hours claims
\* C9: get_working_hours(E, D) with the end date omitted returns what
\* get_working_hours(E, D, D) returns and hands the same interval to the
\* calendar collaborator.
C9_OmittedEndIsSingleDay ==
    (last.op = "get_working_hours" /\ last.value.end_date = None) =>
        LET D == last.value.start_date
            explicit == get_working_hours(last.rec, D, <<D>>)
        IN /\ last.value.result.hours = explicit.hours
           /\ last.value.result.start_dt = explicit.start_dt
           /\ last.value.result.end_dt = explicit.end_dt

\* C9 witness: a call without end date on a day that has working hours.
C9_Witness ==
    /\ last.op = "get_working_hours"
    /\ last.value.end_date = None
    /\ last.value.result.hours > 0

\* Local midnight of date d in zone z, as an instant.
LocalMidnight(z, d) == d * HoursPerDay - utcoffset(z, d * HoursPerDay)

\* C10: for start_date <= end_date the collaborator is queried with the
\* interval from local midnight of start_date to local midnight of
\* end_date + 1, each with the offset in force on its own date, and the
\* result is the sum of the hours of that interval.
C10_IntervalIsLocalMidnights ==
    (last.op = "get_working_hours"
        /\ last.value.start_date
             <= end_date_or_start(last.value.start_date, last.value.end_date)) =>
        LET z   == tz[last.rec]
            end == end_date_or_start(last.value.start_date, last.value.end_date)
            r   == last.value.result
        IN /\ instant(r.start_dt) = LocalMidnight(z, last.value.start_date)
           /\ instant(r.end_dt) = LocalMidnight(z, end + 1)
           /\ r.hours = sum_work_time(
                            list_normal_work_time_per_day(r.start_dt, r.end_dt))

\* ----------------------------------------------------- access flag claims
\* Employee e is below an employee linked to user u in the hierarchy.
RECURSIVE IsBelowUser(_, _, _)
IsBelowUser(e, u, k) ==
    /\ k > 0
    /\ parent_id[e] # NoRecord
    /\ (user_id[parent_id[e]] = u \/ IsBelowUser(parent_id[e], u, k - 1))

====
